---- MODULE Spec2Model ----
(***************************************************************************)
(* A model of the Telegram news bot of src/main.py: the MarkdownV2         *)
(* formatter and truncator (pure functions over sequences of characters)   *)
(* and the delivery chain of send_to_telegram.                             *)
(*                                                                         *)
(* A Python str is modelled as a sequence of one-character strings.        *)
(* Python indices are 0-based: text[i] of the source is text[i + 1] here.  *)
(***************************************************************************)
EXTENDS Integers, Sequences, FiniteSets, TLC

(***************************************************************************)
(* Characters                                                              *)
(***************************************************************************)
BACKSLASH == "\\"
STAR == "*"
UNDERSCORE == "_"
SPACE == " "
NEWLINE == "\n"
\* the one-character ellipsis U+2026 appended by the truncator, line 96
ELLIPSIS == "<ellipsis>"
BACKTICK == "<backtick>"
\* the private-use placeholders U+E001 and U+E002 of the formatter, lines 56-57
BOLD_MASK == "<ue001>"
ITALIC_MASK == "<ue002>"

\* the characters str.rstrip() removes, among those of the model's alphabet
Whitespace == {SPACE, NEWLINE, "\t"}

\* the character class of the escaping regex, main.py line 65
Reserved ==
  {"_", "[", "]", "(", ")", "~", BACKTICK, ">", "#", "+", "-", "=", "|", "{", "}", ".", "!"}

\* the element of a one-element set: { F(x) : x \in {e} } evaluates e once
\* and binds x to its value
Only(S) == CHOOSE x \in S : TRUE

Min(a, b) == IF a < b THEN a ELSE b
Max(a, b) == IF a > b THEN a ELSE b

\* text[:n] of Python, for any integer n >= 0
Prefix(text, n) == SubSeq(text, 1, Min(n, Len(text)))

\* str.rstrip(): drop the trailing whitespace
rstrip(text) ==
  LET keep == {k \in 1..Len(text) : text[k] \notin Whitespace}
  IN  IF keep = {} THEN <<>>
      ELSE SubSeq(text, 1, CHOOSE k \in keep : \A j \in keep : j <= k)

(***************************************************************************)
(* _truncate_markdown_v2_safely, main.py lines 73-96                       *)
(***************************************************************************)
\* the loop variables before the first iteration, lines 76-79
TruncScanInit == [i |-> 0, open_bold |-> 0, open_italic |-> 0, last_safe_space |-> -1]

\* one iteration of the while loop, lines 80-93 (no change once the guard fails)
TruncScanStep(text, limit, st) ==
  IF ~(st.i < Min(Len(text), limit)) THEN st
  ELSE
    LET i == st.i
        ch == text[i + 1]
        prev_backslash == (i > 0 /\ text[i] = BACKSLASH)
    IN  IF i + 1 < Len(text) /\ ch = STAR /\ text[i + 2] = STAR /\ ~prev_backslash
        THEN [st EXCEPT !.open_bold = 1 - st.open_bold, !.i = i + 2]
        ELSE
          LET is_double == (i + 1 < Len(text) /\ text[i + 2] = STAR)
              italic == IF ch = STAR /\ ~prev_backslash /\ ~is_double
                        THEN 1 - st.open_italic ELSE st.open_italic
              safe == IF ch = SPACE /\ st.open_bold = 0 /\ italic = 0
                      THEN i ELSE st.last_safe_space
          IN  [i |-> i + 1, open_bold |-> st.open_bold,
               open_italic |-> italic, last_safe_space |-> safe]

\* n iterations of the loop, by halving (the loop runs at most limit times)
RECURSIVE TruncScanIter(_, _, _, _)
TruncScanIter(text, limit, st, n) ==
  IF n <= 0 THEN st
  ELSE IF n = 1 THEN TruncScanStep(text, limit, st)
  ELSE LET h == n \div 2
       IN  Only({TruncScanIter(text, limit, mid, n - h) :
                   mid \in {TruncScanIter(text, limit, st, h)}})

\* TruncScan with the loop run over the whole text, not only up to the limit
TruncScanWholeText(text, limit) ==
  TruncScanIter(text, Len(text), TruncScanInit, Len(text))

\* the loop variables when the loop exits
TruncScan(text, limit) ==
  TruncScanIter(text, limit, TruncScanInit, Min(Len(text), limit))

\* line 94
TruncCutIndex(text, limit) ==
  LET last_safe_space == TruncScan(text, limit).last_safe_space
  IN  IF last_safe_space # -1 THEN last_safe_space ELSE Max(0, limit - 1)

\* lines 74-75 left out: a string within the limit is cut as well
_truncate_markdown_v2_always(text, limit) ==
  Append(rstrip(Prefix(text, TruncCutIndex(text, limit))), ELLIPSIS)

_truncate_markdown_v2_safely(text, limit) ==
  IF Len(text) <= limit THEN text
  ELSE Append(rstrip(Prefix(text, TruncCutIndex(text, limit))), ELLIPSIS)

(***************************************************************************)
(* _escape_md_v2_preserving_formatting, main.py lines 49-70                *)
(***************************************************************************)
\* the concatenation of pieces[lo], ..., pieces[hi], by halving: the result of
\* a replacement that puts a piece in the place of every character
RECURSIVE Flatten(_, _, _)
Flatten(pieces, lo, hi) ==
  IF lo > hi THEN <<>>
  ELSE IF lo = hi THEN pieces[lo]
  ELSE LET mid == (lo + hi) \div 2
       IN  Flatten(pieces, lo, mid) \o Flatten(pieces, mid + 1, hi)

\* the end (exclusive, 0-based) of a match of mark ([^_\n]+?) mark that starts
\* at the 0-based position i, or -1: the group holds no "_", so it runs up to
\* the first "_" or newline after the opening marker
DelimitedEnd(text, i, width) ==
  LET n == Len(text)
      opens == i + width <= n /\ \A k \in 1..width : text[i + k] = UNDERSCORE
      stops == {j \in (i + width)..(n - 1) : text[j + 1] \in {UNDERSCORE, NEWLINE}}
      j == CHOOSE x \in stops : \A y \in stops : x <= y
  IN  IF opens /\ stops # {} /\ j > i + width /\ j + width <= n
         /\ \A k \in 1..width : text[j + k] = UNDERSCORE
      THEN j + width ELSE -1

\* one step of re.sub over the pattern of `width` underscores: at a match the
\* markers become stars and the scan resumes after it, else one character is copied
SubStep(text, width, st) ==
  IF st.i >= Len(text) THEN st
  ELSE LET e == DelimitedEnd(text, st.i, width)
           stars == [k \in 1..width |-> STAR]
       IN  IF e # -1
           THEN [i |-> e,
                 out |-> st.out \o stars
                         \o SubSeq(text, st.i + width + 1, e - width) \o stars]
           ELSE [i |-> st.i + 1, out |-> Append(st.out, text[st.i + 1])]

RECURSIVE SubIter(_, _, _, _)
SubIter(text, width, st, n) ==
  IF n <= 0 THEN st
  ELSE IF n = 1 THEN SubStep(text, width, st)
  ELSE LET h == n \div 2
       IN  Only({SubIter(text, width, mid, n - h) :
                   mid \in {SubIter(text, width, st, h)}})

\* re.sub(r"__([^_\n]+?)__", r"**\1**", text) for width 2, line 52;
\* re.sub(r"_([^_\n]+?)_", r"*\1*", text) for width 1, line 53
SubUnderscores(text, width) ==
  SubIter(text, width, [i |-> 0, out |-> <<>>], Len(text)).out

\* one step of text.replace("**", BOLD_MASK): leftmost, non-overlapping
MaskBoldStep(text, st) ==
  IF st.i >= Len(text) THEN st
  ELSE IF st.i + 1 < Len(text) /\ text[st.i + 1] = STAR /\ text[st.i + 2] = STAR
       THEN [i |-> st.i + 2, out |-> Append(st.out, BOLD_MASK)]
       ELSE [i |-> st.i + 1, out |-> Append(st.out, text[st.i + 1])]

RECURSIVE MaskBoldIter(_, _, _)
MaskBoldIter(text, st, n) ==
  IF n <= 0 THEN st
  ELSE IF n = 1 THEN MaskBoldStep(text, st)
  ELSE LET h == n \div 2
       IN  Only({MaskBoldIter(text, mid, n - h) : mid \in {MaskBoldIter(text, st, h)}})

\* line 58
MaskBold(text) == MaskBoldIter(text, [i |-> 0, out |-> <<>>], Len(text)).out

\* line 59
MaskItalic(text) == [k \in 1..Len(text) |-> IF text[k] = STAR THEN ITALIC_MASK ELSE text[k]]

\* line 62 left out: a backslash of the input is kept single
EscapeBackslashCharKept(c) == <<c>>

\* line 62
EscapeBackslashChar(c) == IF c = BACKSLASH THEN <<BACKSLASH, BACKSLASH>> ELSE <<c>>
EscapeBackslashes(text) ==
  Flatten([k \in 1..Len(text) |-> EscapeBackslashChar(text[k])], 1, Len(text))

\* line 65
EscapeReservedChar(c) == IF c \in Reserved THEN <<BACKSLASH, c>> ELSE <<c>>
EscapeReserved(text) ==
  Flatten([k \in 1..Len(text) |-> EscapeReservedChar(text[k])], 1, Len(text))

\* lines 68-69: no "*" is left when the masks are put back, so the two
\* replacements act on disjoint characters
UnmaskChar(c) ==
  IF c = BOLD_MASK THEN <<STAR, STAR>>
  ELSE IF c = ITALIC_MASK THEN <<STAR>> ELSE <<c>>
Unmask(text) ==
  Flatten([k \in 1..Len(text) |-> UnmaskChar(text[k])], 1, Len(text))

\* lines 52-70, each pass applied to the result of the pass before
_escape_md_v2_preserving_formatting(text) ==
  Only({Unmask(t6) : t6 \in
    {EscapeReserved(t5) : t5 \in
      {EscapeBackslashes(t4) : t4 \in
        {MaskItalic(t3) : t3 \in
          {MaskBold(t2) : t2 \in
            {SubUnderscores(t1, 1) : t1 \in {SubUnderscores(text, 2)}}}}}}})

\* prepare_markdown_v2 called without a limit (limit is None), lines 99-103
prepare_markdown_v2(text) == _escape_md_v2_preserving_formatting(text)

\* prepare_markdown_v2 called with a limit, lines 99-103
prepare_markdown_v2_limit(text, limit) ==
  LET escaped == _escape_md_v2_preserving_formatting(text)
  IN  IF Len(escaped) > limit THEN _truncate_markdown_v2_safely(escaped, limit)
      ELSE escaped

(***************************************************************************)
(* State                                                                   *)
(***************************************************************************)
VARIABLES
  \* send_to_telegram: the arguments, the configured CHANNEL_LINK, the locals
  pc, post_text, image_url, channel_link, final_caption_md2, photo_sent, input_file,
  \* what the run did: the delivery states entered, the calls handed to the
  \* transport, the length checks of lines 148 and 193 with the truncation each
  \* invoked, the critical log lines, the result
  attempts, calls, length_checks, critical, outcome,
  \* one application of _truncate_markdown_v2_safely: argument, limit, result
  trunc_text, trunc_limit, trunc_result, trunc_pc,
  \* one application of _escape_md_v2_preserving_formatting: argument, result
  fmt_text, fmt_result, fmt_pc,
  \* main: the configured POSTS_PER_DAY, START_HOUR, END_HOUR, the loop index
  \* of line 276, the number of jobs the scheduler holds and the job added last
  sched_pc, POSTS_PER_DAY, START_HOUR, END_HOUR, sched_i, jobs_n, job,
  \* one call of select_best_image: the candidates, the positions of those
  \* that can be downloaded and decoded, what the model call does, the result
  rank_pc, image_urls, rank_loaded, rank_answer, rank_result,
  \* the runs of process_and_post_news on the event loop, and the URLs held by
  \* the file PUBLISHED_URLS_FILE
  runs, published

chainVars ==
  <<pc, post_text, image_url, channel_link, final_caption_md2, photo_sent, input_file,
    attempts, calls, length_checks, critical, outcome>>
truncVars == <<trunc_text, trunc_limit, trunc_result, trunc_pc>>
fmtVars == <<fmt_text, fmt_result, fmt_pc>>
\* the variables a step of send_to_telegram, of the truncator, of the formatter
\* leaves alone
schedVars == <<sched_pc, POSTS_PER_DAY, START_HOUR, END_HOUR, sched_i, jobs_n, job>>
rankVars == <<rank_pc, image_urls, rank_loaded, rank_answer, rank_result>>
pipeVars == <<runs, published>>
offChain == <<truncVars, fmtVars, schedVars, rankVars, pipeVars>>
offTrunc == <<chainVars, fmtVars, schedVars, rankVars, pipeVars>>
offFmt == <<truncVars, chainVars, schedVars, rankVars, pipeVars>>
offSched == <<chainVars, truncVars, fmtVars, rankVars, pipeVars>>
offRank == <<chainVars, truncVars, fmtVars, schedVars, pipeVars>>
offPipe == <<chainVars, truncVars, fmtVars, schedVars, rankVars>>
vars == <<chainVars, truncVars, fmtVars, schedVars, rankVars, pipeVars>>

(***************************************************************************)
(* send_to_telegram, main.py lines 130-218                                 *)
(***************************************************************************)
\* Telegram limits written in the source
CAPTION_LIMIT == 1024
MESSAGE_LIMIT == 4096
PLAIN_CUT == 4092

\* the 17 letters of the link label, lines 136 and 139
LinkLabel ==
  <<"P", "e", "r", "e", "j", "t", "y", " ", "d", "o", " ", "k", "a", "n", "a", "l", "u">>

\* line 136
link_md2(link) == <<NEWLINE, NEWLINE, "[">> \o LinkLabel \o <<"]", "(">> \o link \o <<")">>
\* line 139
plain_text_link(link) == <<NEWLINE, NEWLINE>> \o LinkLabel \o <<":", SPACE>> \o link
\* line 140
full_plain_text(text, link) == text \o plain_text_link(link)

\* image_url is None when no image was chosen, line 143
NoImage == {"None"}

\* Budgeted with the link left out of the length check and of the limit
BudgetedIgnoresLink(where, base, link, state_limit) ==
  LET over == Len(base) > state_limit
  IN  [where |-> where, escaped_len |-> Len(base), link_len |-> Len(link),
       invoked |-> over, limit |-> IF over THEN state_limit ELSE -1,
       text |-> IF over THEN _truncate_markdown_v2_safely(base, state_limit) \o link
                ELSE base \o link]

\* the length check of a rich-text state and what it sends: the escaped body,
\* truncated to the state limit less the link when body and link exceed the limit
Budgeted(where, base, link, state_limit) ==
  LET new_limit == state_limit - Len(link)
      over == Len(base) + Len(link) > state_limit
  IN  [where |-> where, escaped_len |-> Len(base), link_len |-> Len(link),
       invoked |-> over, limit |-> IF over THEN new_limit ELSE -1,
       text |-> IF over THEN _truncate_markdown_v2_safely(base, new_limit) \o link
                ELSE base \o link]

\* lines 145-153: the caption of both photo states
Caption(text, link) ==
  Only({Budgeted("caption", base_caption_md2, l, CAPTION_LIMIT) :
          base_caption_md2 \in {prepare_markdown_v2(text)}, l \in {link_md2(link)}})

\* lines 189-196: the text of the RichText state
RichText(text, link) ==
  Only({Budgeted("RichText", base_text_md2, l, MESSAGE_LIMIT) :
          base_text_md2 \in {prepare_markdown_v2(text)}, l \in {link_md2(link)}})

\* line 209: the text of the PlainText state
PlainText(text, link) ==
  Only({IF Len(full) <= MESSAGE_LIMIT THEN full
        ELSE Prefix(full, PLAIN_CUT) \o <<".", ".", ".">> :
          full \in {full_plain_text(text, link)}})

\* what an awaited bot.send_photo or bot.send_message can do: return, raise
\* TelegramError, or raise an exception that is no TelegramError
SendResults == {"ok", "TelegramError", "Exception"}

\* what _build_input_file_from_url returns, lines 106-127: an InputFile, or
\* None for a rejected content type, a failed download or any exception
FetchResults == {"InputFile", "None"}

\* EntryState with the test of line 143 left out
EntryStateAlwaysPhoto(image) == "RemotePhoto"

\* line 143 and line 186: the first state of the chain
EntryState(image) == IF image \notin NoImage THEN "RemotePhoto" ELSE "RichText"

\* AfterPhoto with the test of line 186 left out
AfterPhotoIgnoresFlag(sent) == "RichText"

\* line 186: after a photo state, the text states run unless a photo was sent
AfterPhoto(sent) == IF sent THEN "done" ELSE "RichText"

\* ExceptClause with the clause of line 164 going straight to the text states
ExceptClauseSkipsReupload(state, e) ==
  CASE state = "RemotePhoto" /\ e = "TelegramError" -> "RichText"
    [] state = "RemotePhoto" /\ e = "Exception" -> "RichText"
    [] state = "ReuploadedPhoto" /\ e = "TelegramError" -> "RichText"
    [] state = "RichText" /\ e = "TelegramError" -> "PlainText"
    [] state = "PlainText" /\ e = "TelegramError" -> "exhausted"
    [] OTHER -> "propagate"

\* ExceptClause with the clause of line 205 sending the rich text once more
ExceptClauseRetriesRichText(state, e) ==
  CASE state = "RemotePhoto" /\ e = "TelegramError" -> "ReuploadedPhoto"
    [] state = "RemotePhoto" /\ e = "Exception" -> "RichText"
    [] state = "ReuploadedPhoto" /\ e = "TelegramError" -> "RichText"
    [] state = "RichText" /\ e = "TelegramError" -> "RichText"
    [] state = "PlainText" /\ e = "TelegramError" -> "exhausted"
    [] OTHER -> "propagate"

\* the except clause that catches the exception e raised in a state, and where
\* the chain goes from it: lines 164 and 182 for the try of line 155, line 179
\* for the try of line 166, line 205 for the try of line 187, line 217 for the
\* try of line 207. An exception raised inside the handler of line 164 is not
\* caught by the handler of line 182, its sibling.
ExceptClause(state, e) ==
  CASE state = "RemotePhoto" /\ e = "TelegramError" -> "ReuploadedPhoto"
    [] state = "RemotePhoto" /\ e = "Exception" -> AfterPhoto(FALSE)
    [] state = "ReuploadedPhoto" /\ e = "TelegramError" -> AfterPhoto(FALSE)
    [] state = "RichText" /\ e = "TelegramError" -> "PlainText"
    [] state = "PlainText" /\ e = "TelegramError" -> "exhausted"
    [] OTHER -> "propagate"

\* lines 130-153: the entry, up to the first awaited send
Enter ==
  /\ pc = "entry"
  /\ IF image_url \notin NoImage
     THEN \E c \in {Caption(post_text, channel_link)} :
            /\ final_caption_md2' = c.text
            /\ length_checks' = Append(length_checks, c)
     ELSE UNCHANGED <<final_caption_md2, length_checks>>
  /\ pc' = EntryState(image_url)
  /\ UNCHANGED <<post_text, image_url, channel_link, photo_sent, input_file, attempts,
                 calls, critical, outcome, offChain>>

\* the end of a state whose send returned r: success on return (lines 162-163,
\* 175-176, 204, 216), else the except clause. The clause of line 217 logs the
\* exhausted chain as critical; an exception no clause catches leaves
\* send_to_telegram and is logged as critical by its caller,
\* process_and_post_news lines 256-259.
Finish(state, r) ==
  LET to == ExceptClause(state, r)
      photo == state \in {"RemotePhoto", "ReuploadedPhoto"}
  IN  IF r = "ok"
      THEN /\ photo_sent' = (photo_sent \/ photo)
           /\ pc' = IF photo THEN AfterPhoto(photo_sent') ELSE "done"
           /\ outcome' = "success"
           /\ UNCHANGED critical
      ELSE /\ UNCHANGED photo_sent
           /\ pc' = IF to \in {"exhausted", "propagate"} THEN "done" ELSE to
           /\ outcome' = CASE to = "exhausted" -> "exhausted"
                           [] to = "propagate" -> "raised"
                           [] OTHER -> outcome
           /\ critical' = CASE to = "exhausted" -> Append(critical, "plain text send failed")
                            [] to = "propagate" -> Append(critical, "unexpected error in main loop")
                            [] OTHER -> critical

\* a call handed to the transport, with what it did
Call(state, op, parse_mode, text, r) ==
  [state |-> state, op |-> op, parse_mode |-> parse_mode, text |-> text, result |-> r]

\* lines 155-165 and 182-183: send_photo with the remote URL
RemotePhoto ==
  /\ pc = "RemotePhoto"
  /\ attempts' = Append(attempts, "RemotePhoto")
  /\ \E r \in SendResults :
       /\ calls' = Append(calls,
            Call("RemotePhoto", "send_photo", "MarkdownV2", final_caption_md2, r))
       /\ Finish("RemotePhoto", r)
  /\ UNCHANGED <<post_text, image_url, channel_link, final_caption_md2, input_file,
                 length_checks, offChain>>

\* lines 166-181: download the image and send_photo with the file; without a
\* file line 178 raises TelegramError and nothing is sent
ReuploadedPhoto ==
  /\ pc = "ReuploadedPhoto"
  /\ attempts' = Append(attempts, "ReuploadedPhoto")
  /\ \E f \in FetchResults :
       /\ input_file' = f
       /\ IF f = "InputFile"
          THEN \E r \in SendResults :
                 /\ calls' = Append(calls,
                      Call("ReuploadedPhoto", "send_photo", "MarkdownV2", final_caption_md2, r))
                 /\ Finish("ReuploadedPhoto", r)
          ELSE /\ UNCHANGED calls
               /\ Finish("ReuploadedPhoto", "TelegramError")
  /\ UNCHANGED <<post_text, image_url, channel_link, final_caption_md2, length_checks,
                 offChain>>

\* lines 186-206: send_message with MarkdownV2
SendRichText ==
  /\ pc = "RichText"
  /\ attempts' = Append(attempts, "RichText")
  /\ \E m \in {RichText(post_text, channel_link)}, r \in SendResults :
       /\ length_checks' = Append(length_checks, m)
       /\ calls' = Append(calls, Call("RichText", "send_message", "MarkdownV2", m.text, r))
       /\ Finish("RichText", r)
  /\ UNCHANGED <<post_text, image_url, channel_link, final_caption_md2, input_file,
                 offChain>>

\* lines 207-218: send_message without markup
SendPlainText ==
  /\ pc = "PlainText"
  /\ attempts' = Append(attempts, "PlainText")
  /\ \E t \in {PlainText(post_text, channel_link)}, r \in SendResults :
       /\ calls' = Append(calls, Call("PlainText", "send_message", "None", t, r))
       /\ Finish("PlainText", r)
  /\ UNCHANGED <<post_text, image_url, channel_link, final_caption_md2, input_file,
                 length_checks, offChain>>

(***************************************************************************)
(* One application of the truncator to a raw or an escaped string          *)
(***************************************************************************)
\* the steps of prepare_markdown_v2(text, limit), lines 99-103, one at a time
Escape ==
  /\ trunc_pc = "raw"
  /\ trunc_text' = _escape_md_v2_preserving_formatting(trunc_text)
  /\ trunc_pc' = "escaped"
  /\ UNCHANGED <<trunc_limit, trunc_result, offTrunc>>

Truncate ==
  /\ trunc_pc \in {"raw", "escaped"}
  /\ trunc_result' = _truncate_markdown_v2_safely(trunc_text, trunc_limit)
  /\ trunc_pc' = IF trunc_pc = "raw" THEN "truncated raw" ELSE "truncated escaped"
  /\ UNCHANGED <<trunc_text, trunc_limit, offTrunc>>

\* prepare_markdown_v2(text, limit) as one call, lines 99-103
Prepare ==
  /\ trunc_pc = "raw"
  /\ trunc_result' = prepare_markdown_v2_limit(trunc_text, trunc_limit)
  /\ trunc_pc' = "prepared"
  /\ UNCHANGED <<trunc_text, trunc_limit, offTrunc>>

(***************************************************************************)
(* One application of the formatter                                        *)
(***************************************************************************)
\* _escape_md_v2_preserving_formatting(text), lines 49-70
Format ==
  /\ fmt_pc = "raw"
  /\ fmt_result' = _escape_md_v2_preserving_formatting(fmt_text)
  /\ fmt_pc' = "formatted"
  /\ UNCHANGED <<fmt_text, offFmt>>

(***************************************************************************)
(* The schedule setup of main, main.py lines 269-287                       *)
(***************************************************************************)
\* line 269
total_minutes_in_range(start, end) == (end - start) * 60

\* the interval taken for the whole window, whatever the number of posts
interval_minutes_undivided(posts, total) == total

\* lines 271-274
interval_minutes(posts, total) ==
  IF posts > 0 THEN total \div posts ELSE total + 1

\* the values random.randint(0, max(0, interval_minutes - 1)) can return, line 278
RandomOffsets(interval) == 0..Max(0, interval - 1)

\* one iteration of the loop of line 276: lines 278-284. The scheduler keeps
\* every job it is given; the model keeps their number and the last one.
AddJob ==
  /\ sched_pc = "loop"
  /\ sched_i < POSTS_PER_DAY
  /\ \E random_offset \in
        RandomOffsets(interval_minutes(POSTS_PER_DAY,
                                       total_minutes_in_range(START_HOUR, END_HOUR))) :
       LET interval == interval_minutes(POSTS_PER_DAY,
                                        total_minutes_in_range(START_HOUR, END_HOUR))
           scheduled_minute_abs == sched_i * interval + random_offset
       IN  job' = [i |-> sched_i, random_offset |-> random_offset,
                   scheduled_minute_abs |-> scheduled_minute_abs,
                   scheduled_hour |-> START_HOUR + scheduled_minute_abs \div 60,
                   scheduled_minute |-> scheduled_minute_abs % 60]
  /\ jobs_n' = jobs_n + 1
  /\ sched_i' = sched_i + 1
  /\ UNCHANGED <<sched_pc, POSTS_PER_DAY, START_HOUR, END_HOUR, offSched>>

\* line 287, reached when range(POSTS_PER_DAY) is used up
StartScheduler ==
  /\ sched_pc = "loop"
  /\ sched_i >= POSTS_PER_DAY
  /\ sched_pc' = "started"
  /\ UNCHANGED <<POSTS_PER_DAY, START_HOUR, END_HOUR, sched_i, jobs_n, job, offSched>>

(***************************************************************************)
(* select_best_image, ai_content_processor.py lines 76-161                 *)
(***************************************************************************)
\* line 101: only image_urls[:5] are downloaded
RANK_LIMIT == 5

\* what model.generate_content and the parsing of its reply can do, lines
\* 137-161: raise, reply without a number, or reply with a first number n
Raises == [kind |-> "raise", n |-> 0]
NoNumber == [kind |-> "no number", n |-> 0]
Number(n) == [kind |-> "number", n |-> n]

\* the image candidates of a page: up to MaxImages distinct URLs, more than
\* the five that are downloaded
MaxImages == 6
Images == <<"i1", "i2", "i3", "i4", "i5", "i6", "i7", "i8">>
ImageLists == {Prefix(Images, n) : n \in 0..MaxImages}
RankAnswers == {Raises, NoNumber} \cup {Number(n) : n \in 0..(MaxImages + 1)}

\* lines 101-130: the candidates among the first five that could be loaded, in
\* the order supplied
valid_urls_for_model(urls, loaded) ==
  LET first == Prefix(urls, RANK_LIMIT)
      kept == {k \in 1..Len(first) : k \in loaded}
      RECURSIVE Pick(_)
      Pick(k) == IF k > Len(first) THEN <<>>
                 ELSE IF k \in kept THEN <<first[k]>> \o Pick(k + 1)
                 ELSE Pick(k + 1)
  IN  Pick(1)

\* lines 87-161
select_best_image(urls, loaded, answer) ==
  LET valid == valid_urls_for_model(urls, loaded)
  IN  IF urls = <<>> THEN "None"
      ELSE IF Len(valid) = 0 THEN "None"
      ELSE IF answer.kind = "number"
              /\ 0 <= answer.n - 1 /\ answer.n - 1 < Len(valid)
           THEN valid[answer.n]
      ELSE valid[1]

\* one call of select_best_image(image_urls, post_text)
Rank ==
  /\ rank_pc = "call"
  /\ rank_result' = select_best_image(image_urls, rank_loaded, rank_answer)
  /\ rank_pc' = "returned"
  /\ UNCHANGED <<image_urls, rank_loaded, rank_answer, offRank>>

(***************************************************************************)
(* The pipeline: process_and_post_news, main.py lines 221-259, with the    *)
(* collaborators of data_fetcher.py and ai_content_processor.py            *)
(***************************************************************************)
\* RSS_FEEDS of the configuration, each feed with the links of its entries
RSS_FEEDS == <<<<"a1">>, <<"a2">>>>

\* what reading and appending PUBLISHED_URLS_FILE can do
FileResults == {"ok", "error"}

\* data_fetcher.load_published_urls, lines 25-35: the lines of the file, or
\* the empty set when reading raises
load_published_urls(file, read) == IF read = "ok" THEN file ELSE {}

\* data_fetcher.add_url_to_published, lines 38-44: the append, or nothing but
\* a log line when it raises
add_url_to_published(file, url, write) == IF write = "ok" THEN file \cup {url} ELSE file

\* lines 52-71: the entries met by the two loops, feed by feed; a feed that
\* is bozo or whose parsing raises is skipped
RECURSIVE EntriesFrom(_, _)
EntriesFrom(k, parsed) ==
  IF k > Len(RSS_FEEDS) THEN <<>>
  ELSE (IF k \in parsed THEN RSS_FEEDS[k] ELSE <<>>) \o EntriesFrom(k + 1, parsed)

\* line 62: the first entry whose link is not in published_urls
RECURSIVE FirstNew(_, _, _)
FirstNew(entries, published_urls, k) ==
  IF k > Len(entries) THEN "None"
  ELSE IF entries[k] \notin published_urls THEN entries[k]
  ELSE FirstNew(entries, published_urls, k + 1)

\* data_fetcher.get_latest_news_from_rss, lines 47-74: the URL returned and
\* the file after the call
get_latest_news_from_rss(file, read, parsed, write) ==
  LET published_urls == load_published_urls(file, read)
      article_url == FirstNew(EntriesFrom(1, parsed), published_urls, 1)
  IN  [article_url |-> article_url,
       file |-> IF article_url = "None" THEN file
                ELSE add_url_to_published(file, article_url, write)]

\* the states of send_to_telegram in which a run is suspended in an await
ChainStates == {"RemotePhoto", "ReuploadedPhoto", "RichText", "PlainText"}

\* the except clause of line 258 with a narrower class
MainLoopCatchesTransportOnly(e) == e = "TelegramError"

\* line 258: except Exception catches TelegramError and every other Exception
MainLoopCatches(e) == e \in {"TelegramError", "Exception"}

\* the test of line 241 left out
NoPostNever(generated_post) == FALSE

\* line 241: not generated_post
NoPost(generated_post) == generated_post \in {"None", ""}

\* lines 235: not scraped_data or not scraped_data.get("raw_text")
NoContent(scraped_data) == scraped_data.kind = "None" \/ scraped_data.raw_text = ""

\* a run that has not been started
NewRun ==
  [pc |-> "waiting", article_url |-> "None", known |-> FALSE, steps |-> <<>>,
   outcome |-> "pending", critical |-> FALSE]

\* a return of process_and_post_news
Returned(run, steps, how) ==
  [run EXCEPT !.pc = "done", !.steps = steps, !.outcome = how]

\* an exception e raised inside the try of line 226: caught at line 258 and
\* logged as critical, or leaving process_and_post_news
Raised(run, steps, e) ==
  IF MainLoopCatches(e)
  THEN [run EXCEPT !.pc = "done", !.steps = steps, !.outcome = "critical",
                   !.critical = TRUE]
  ELSE [run EXCEPT !.pc = "done", !.steps = steps, !.outcome = "propagated"]

\* the startup run is awaited by main, line 291: an exception that leaves it
\* ends main and with it the event loop, lines 299-304
MainAlive == runs[1].outcome # "propagated"

\* what the scraper, the generator and the awaited sends can do
NoScrape == [kind |-> "None", raw_text |-> "", image_urls |-> <<>>]
ScrapeRaises == [kind |-> "raise", raw_text |-> "", image_urls |-> <<>>]
MaxPageImages == 2
ScrapeResults ==
  {NoScrape, ScrapeRaises}
    \cup {[kind |-> "data", raw_text |-> t, image_urls |-> Prefix(Images, n)] :
            t \in {"", "text"}, n \in 0..MaxPageImages}
GenerateResults == {"post", "", "None", "raise"}

\* what get_latest_news_from_rss can return for a file, over everything that
\* reading the file, parsing the feeds and appending to the file can do
FetchOutcomes(file) ==
  {get_latest_news_from_rss(file, read, parsed, write) :
     read \in FileResults, parsed \in SUBSET (1..Len(RSS_FEEDS)), write \in FileResults}

\* what select_best_image can return for the candidates of a page, over
\* everything the downloads and the model call can do
RankOutcomes(urls) ==
  {select_best_image(urls, loaded, answer) :
     loaded \in SUBSET (1..Len(urls)), answer \in RankAnswers}

\* lines 245-256: the ranking, if the page has candidates, and the call of
\* send_to_telegram up to its first await
RankAndDeliver(run, steps, urls, r) ==
  IF urls = <<>>
  THEN runs' = [runs EXCEPT ![r] =
         [run EXCEPT !.pc = EntryState("None"), !.steps = Append(steps, "deliver")]]
  ELSE \/ \E best_image_url \in RankOutcomes(urls) :
            runs' = [runs EXCEPT ![r] =
              [run EXCEPT !.pc = EntryState(best_image_url),
                          !.steps = steps \o <<"rank", "deliver">>]]
       \/ runs' = [runs EXCEPT ![r] = Raised(run, Append(steps, "rank raises"), "Exception")]

\* the step a run notes for what the generator returned: generate_news_post
\* returns None when it fails, ai_content_processor.py lines 49-51 and 71-73,
\* and an empty string when the reply of the model is blank, line 66
GenerateStep(generated_post) ==
  IF generated_post = "post" THEN "generate" ELSE "generate fails"

\* the step a run notes for what the scraper returned: scrape_article_content
\* returns None when it fails, data_fetcher.py lines 99-101 and 143-148
ScrapeStep(scraped_data) ==
  IF scraped_data.kind = "data" /\ scraped_data.raw_text # "" THEN "scrape"
  ELSE "scrape fails"

\* lines 239-243, then lines 245-256
GenerateAndOn(run, steps, urls, r) ==
  \E generated_post \in GenerateResults :
    IF generated_post = "raise"
    THEN runs' = [runs EXCEPT ![r] = Raised(run, Append(steps, "generate raises"), "Exception")]
    ELSE IF NoPost(generated_post)
    THEN runs' = [runs EXCEPT ![r] =
           Returned(run, Append(steps, GenerateStep(generated_post)), "no post")]
    ELSE RankAndDeliver(run, Append(steps, GenerateStep(generated_post)), urls, r)

\* lines 233-237, then lines 239-256
ScrapeAndOn(run, steps, r) ==
  \E scraped_data \in ScrapeResults :
    IF scraped_data.kind = "raise"
    THEN runs' = [runs EXCEPT ![r] = Raised(run, Append(steps, "scrape raises"), "Exception")]
    ELSE IF NoContent(scraped_data)
    THEN runs' = [runs EXCEPT ![r] =
           Returned(run, Append(steps, ScrapeStep(scraped_data)), "no content")]
    ELSE GenerateAndOn(run, Append(steps, ScrapeStep(scraped_data)),
                       scraped_data.image_urls, r)

\* lines 225-256 up to the first await inside send_to_telegram: nothing in
\* them is awaited, so no other run acts in between. Run 1 is the run main
\* awaits at line 291, the others are the jobs of line 284, which the
\* scheduler starts on the same event loop once main has reached an await.
process_and_post_news(r) ==
  /\ runs[r].pc = "waiting"
  /\ MainAlive
  /\ r # 1 => runs[1].pc # "waiting"
  /\ \/ /\ runs' = [runs EXCEPT ![r] = Raised(runs[r], <<"fetch raises">>, "Exception")]
        /\ UNCHANGED published
     \/ \E got \in FetchOutcomes(published) :
          /\ published' = got.file
          /\ LET run == [runs[r] EXCEPT !.article_url = got.article_url,
                                        !.known = got.article_url \in published]
             IN  IF got.article_url = "None"
                 THEN runs' = [runs EXCEPT ![r] =
                        Returned(run, <<"fetch nothing">>, "no article")]
                 ELSE ScrapeAndOn(run, <<"fetch">>, r)
  /\ UNCHANGED offPipe

\* the awaited send of a run returns or raises, and the run goes on to its
\* next await or to its end: send_to_telegram lines 155-218, then
\* process_and_post_news lines 256-259
AwaitedSend(r) ==
  /\ runs[r].pc \in ChainStates
  /\ MainAlive
  /\ \E f \in FetchResults, res \in SendResults :
       LET state == runs[r].pc
           no_file == state = "ReuploadedPhoto" /\ f = "None"
           e == IF no_file THEN "TelegramError" ELSE res
           to == ExceptClause(state, e)
           run == runs[r]
       IN  runs' = [runs EXCEPT ![r] =
             IF e = "ok" THEN Returned(run, run.steps, "sent")
             ELSE IF to = "exhausted" THEN Returned(run, run.steps, "exhausted")
             ELSE IF to = "propagate" THEN Raised(run, run.steps, e)
             ELSE [run EXCEPT !.pc = to]]
  /\ UNCHANGED <<published, offPipe>>

(***************************************************************************)
(* Inputs and specifications                                               *)
(***************************************************************************)
\* the post bodies: a unit repeated up to a length. The lengths lie around the
\* budgets of a 40-character link: 1024 - 40 = 984 and 4096 - 40 = 4056
Plain == <<"a", "a", "a", SPACE>>
Spans == <<STAR, "a", SPACE, "b", STAR, SPACE>>
Unbroken == <<"a">>
Dotted == <<".", "a", SPACE>>
Body(unit, n) == [k \in 1..n |-> unit[((k - 1) % Len(unit)) + 1]]
Bodies ==
  {Body(u, n) : u \in {Plain, Spans, Unbroken, Dotted}, n \in {5, 984, 985, 1100}}
    \cup {Body(u, n) : u \in {Plain, Unbroken}, n \in {4056, 4057, 4200}}

\* CHANNEL_LINK of the configuration: a link of 17 characters makes link_md2 40
\* characters long, one of 1000 characters leaves a caption budget of 1
Link(n) == [k \in 1..n |-> "u"]
Inputs ==
  {[post_text |-> b, channel_link |-> Link(17)] : b \in Bodies}
    \cup {[post_text |-> Body(u, 5), channel_link |-> Link(1000)] :
            u \in {Plain, Spans, Unbroken, Dotted}}

ChainIdle ==
  /\ pc = "idle" /\ post_text = <<>> /\ image_url = "None" /\ channel_link = <<>>
  /\ final_caption_md2 = <<>> /\ photo_sent = FALSE /\ input_file = "unset"
  /\ attempts = <<>>
  /\ calls = <<>> /\ length_checks = <<>> /\ critical = <<>> /\ outcome = "pending"

TruncIdle ==
  trunc_pc = "idle" /\ trunc_text = <<>> /\ trunc_limit = 0 /\ trunc_result = <<>>

FmtIdle == fmt_pc = "idle" /\ fmt_text = <<>> /\ fmt_result = <<>>

NoJob == [i |-> -1, random_offset |-> 0, scheduled_minute_abs |-> 0,
          scheduled_hour |-> 0, scheduled_minute |-> 0]

SchedIdle ==
  /\ sched_pc = "idle" /\ POSTS_PER_DAY = 0 /\ START_HOUR = 0 /\ END_HOUR = 0
  /\ sched_i = 0 /\ jobs_n = 0 /\ job = NoJob

RankIdle ==
  /\ rank_pc = "idle" /\ image_urls = <<>> /\ rank_loaded = {}
  /\ rank_answer = Raises /\ rank_result = "None"

PipeIdle == runs = <<>> /\ published = {}

\* a call of send_to_telegram(post_text, image_url)
Init ==
  /\ pc = "entry"
  /\ \E in \in Inputs : post_text = in.post_text /\ channel_link = in.channel_link
  /\ image_url \in NoImage \cup {"url"}
  /\ final_caption_md2 = <<>> /\ photo_sent = FALSE /\ input_file = "unset"
  /\ attempts = <<>>
  /\ calls = <<>> /\ length_checks = <<>> /\ critical = <<>> /\ outcome = "pending"
  /\ TruncIdle
  /\ FmtIdle
  /\ SchedIdle
  /\ RankIdle
  /\ PipeIdle

Next ==
  \/ Enter
  \/ RemotePhoto
  \/ ReuploadedPhoto
  \/ SendRichText
  \/ SendPlainText

Spec == Init /\ [][Next]_vars

\* the strings and limits the truncator is applied to
MaxLen == 5
MaxLimit == 6
MinLimit == 0 - 1
TruncAlphabet == {"a", SPACE, STAR, BACKSLASH}
Strings(n) == UNION {[1..k -> TruncAlphabet] : k \in 0..n}

InitTrunc ==
  /\ ChainIdle
  /\ trunc_pc = "raw"
  /\ trunc_text \in Strings(MaxLen)
  /\ trunc_limit \in MinLimit..MaxLimit
  /\ trunc_result = <<>>
  /\ FmtIdle
  /\ SchedIdle
  /\ RankIdle
  /\ PipeIdle

NextTrunc == Escape \/ Truncate \/ Prepare

SpecTrunc == InitTrunc /\ [][NextTrunc]_vars

\* the strings the formatter is applied to: both emphasis markers of the
\* input, a backslash, a reserved character, a letter
MaxFmtLen == 5
FmtAlphabet == {"a", UNDERSCORE, STAR, BACKSLASH, "."}
FmtStrings(n) == UNION {[1..k -> FmtAlphabet] : k \in 0..n}

InitFormat ==
  /\ ChainIdle
  /\ TruncIdle
  /\ fmt_pc = "raw"
  /\ fmt_text \in FmtStrings(MaxFmtLen)
  /\ fmt_result = <<>>
  /\ SchedIdle
  /\ RankIdle
  /\ PipeIdle

NextFormat == Format

SpecFormat == InitFormat /\ [][NextFormat]_vars

\* the configurations of the schedule: up to MaxPosts posts a day in the
\* windows 9..21, 0..24, 9..10, 23..24 and the empty window 9..9, and more
\* posts than the window 9..10 has minutes
MaxPosts == 4
Windows == {<<9, 21>>, <<0, 24>>, <<9, 10>>, <<23, 24>>, <<9, 9>>}
Schedules ==
  {[posts |-> n, start |-> w[1], end |-> w[2]] : n \in 0..MaxPosts, w \in Windows}
    \cup {[posts |-> 61, start |-> 9, end |-> 10]}

InitSched ==
  /\ ChainIdle
  /\ TruncIdle
  /\ FmtIdle
  /\ sched_pc = "loop"
  /\ \E c \in Schedules :
       POSTS_PER_DAY = c.posts /\ START_HOUR = c.start /\ END_HOUR = c.end
  /\ sched_i = 0 /\ jobs_n = 0 /\ job = NoJob
  /\ RankIdle
  /\ PipeIdle

NextSched == AddJob \/ StartScheduler

SpecSched == InitSched /\ [][NextSched]_vars

InitRank ==
  /\ ChainIdle
  /\ TruncIdle
  /\ FmtIdle
  /\ SchedIdle
  /\ rank_pc = "call"
  /\ image_urls \in ImageLists
  /\ rank_loaded \in SUBSET (1..Min(Len(image_urls), RANK_LIMIT))
  /\ rank_answer \in RankAnswers
  /\ rank_result = "None"
  /\ PipeIdle

NextRank == Rank

SpecRank == InitRank /\ [][NextRank]_vars

\* the runs of one process: the startup run and MaxRuns - 1 scheduled jobs
MaxRuns == 2
Runs == 1..MaxRuns

\* the process starts without a file of published URLs
InitPipeline ==
  /\ ChainIdle
  /\ TruncIdle
  /\ FmtIdle
  /\ SchedIdle
  /\ RankIdle
  /\ runs = [r \in Runs |-> NewRun]
  /\ published = {}

NextPipeline ==
  \/ \E r \in Runs : process_and_post_news(r)
  \/ \E r \in Runs : AwaitedSend(r)

SpecPipeline == InitPipeline /\ [][NextPipeline]_vars

(***************************************************************************)
(* Properties of the delivery chain, checked under Spec                    *)
(***************************************************************************)
ChainOrder == <<"RemotePhoto", "ReuploadedPhoto", "RichText", "PlainText">>
StatesOf(cs) == [k \in 1..Len(cs) |-> cs[k].state]
HasImage == image_url \notin NoImage
Finished == pc = "done"
\* every state entered made its send, and every send raised TelegramError
EverySendFailedInTransport ==
  /\ Len(calls) = Len(attempts)
  /\ \A k \in 1..Len(calls) : calls[k].result = "TelegramError"

\* C1: a run with an image in which the send of every state fails with a
\* transport error makes exactly four delivery attempts, RemotePhoto,
\* ReuploadedPhoto, RichText, PlainText in this order, and ends with the
\* exhausted chain logged as critical.
C1_AllFourFailInOrder ==
  (Finished /\ HasImage /\ EverySendFailedInTransport)
    => /\ attempts = ChainOrder
       /\ StatesOf(calls) = ChainOrder
       /\ outcome = "exhausted"
       /\ critical = <<"plain text send failed">>

C1_Witness ==
  Finished /\ HasImage /\ EverySendFailedInTransport /\ Len(calls) = 4

\* the state after a state of the chain
Successor(state) ==
  CASE state = "RemotePhoto" -> "ReuploadedPhoto"
    [] state = "ReuploadedPhoto" -> "RichText"
    [] state = "RichText" -> "PlainText"
    [] OTHER -> "none"

\* C2: the chain is entered at RemotePhoto with an image and at RichText
\* without one; whatever makes a state fail, the state attempted next is its
\* successor, and a failed state that has a successor is followed by it.
C2_TotalStrictOrder ==
  /\ attempts # <<>> => attempts[1] = (IF HasImage THEN "RemotePhoto" ELSE "RichText")
  /\ \A k \in 1..(Len(attempts) - 1) : attempts[k + 1] = Successor(attempts[k])
  /\ (Finished /\ outcome # "success") => attempts[Len(attempts)] = "PlainText"

\* C3: a finished run either sent the post or reports the exhausted chain
\* after the last state, PlainText, was attempted and failed.
C3_SuccessOrExhausted ==
  Finished =>
    \/ outcome = "success" /\ calls[Len(calls)].result = "ok"
    \/ /\ outcome = "exhausted"
       /\ attempts[Len(attempts)] = "PlainText"
       /\ critical # <<>>

\* C4: only the last call of a run can succeed, and a run with a successful
\* call is over; a run whose RemotePhoto send fails in transport and whose
\* ReuploadedPhoto send succeeds ends in success after two attempts, having
\* sent no text message.
C4_StopsAtFirstSuccess ==
  /\ \A k \in 1..Len(calls) :
       calls[k].result = "ok" => k = Len(calls) /\ Finished /\ outcome = "success"
  /\ (Len(calls) >= 2 /\ calls[1].result = "TelegramError" /\ calls[2].result = "ok"
        /\ calls[2].state = "ReuploadedPhoto")
       => /\ Finished /\ outcome = "success"
          /\ attempts = <<"RemotePhoto", "ReuploadedPhoto">>
          /\ \A k \in 1..Len(calls) : calls[k].op # "send_message"

C4_Witness ==
  /\ Len(calls) = 2 /\ calls[1].result = "TelegramError" /\ calls[2].result = "ok"
  /\ calls[2].state = "ReuploadedPhoto" /\ Finished

\* C5: without an image the first attempt is RichText and no photo state is
\* attempted or sent.
C5_NoImageStartsAtRichText ==
  ~HasImage =>
    /\ attempts # <<>> => attempts[1] = "RichText"
    /\ \A k \in 1..Len(attempts) : attempts[k] \notin {"RemotePhoto", "ReuploadedPhoto"}
    /\ \A k \in 1..Len(calls) : calls[k].op # "send_photo"

C5_Witness == ~HasImage /\ Len(attempts) = 2 /\ Len(calls) = 2

CallsOf(state) == Cardinality({k \in 1..Len(calls) : calls[k].state = state})
Attempted(state) == \E k \in 1..Len(attempts) : attempts[k] = state
NoStateTwice ==
  \A j, k \in 1..Len(attempts) : attempts[j] = attempts[k] => j = k

\* C6 as stated: every attempted state, a ReuploadedPhoto whose image fetch
\* failed included, makes exactly one delivery call; no state is attempted
\* twice; at most four attempts.
C6_OneCallPerAttempt ==
  /\ \A st \in {ChainOrder[k] : k \in 1..4} :
       CallsOf(st) = IF Attempted(st) THEN 1 ELSE 0
  /\ NoStateTwice
  /\ Len(attempts) <= 4

\* C6 as amended: every attempted state makes exactly one delivery call,
\* except a ReuploadedPhoto whose image fetch is rejected or fails, which
\* makes none; no state is attempted twice; at most four attempts.
C6_OneCallUnlessNoFile ==
  /\ \A st \in {ChainOrder[k] : k \in 1..4} :
       CallsOf(st) = IF Attempted(st) /\ ~(st = "ReuploadedPhoto" /\ input_file = "None")
                     THEN 1 ELSE 0
  /\ NoStateTwice
  /\ Len(attempts) <= 4

C6_Witness ==
  /\ Attempted("ReuploadedPhoto") /\ input_file = "None" /\ CallsOf("ReuploadedPhoto") = 0
  /\ Len(attempts) = 4

EndsWith(text, suffix) ==
  /\ Len(text) >= Len(suffix)
  /\ SubSeq(text, Len(text) - Len(suffix) + 1, Len(text)) = suffix

\* C7: every message handed to the transport, the plain text one included,
\* ends with the whole link.
C7_LinkNeverTruncated ==
  \A k \in 1..Len(calls) :
    IF calls[k].parse_mode = "MarkdownV2"
    THEN EndsWith(calls[k].text, link_md2(channel_link))
    ELSE EndsWith(calls[k].text, plain_text_link(channel_link))

StateLimit(where) == IF where = "caption" THEN CAPTION_LIMIT ELSE MESSAGE_LIMIT

\* C8: with a link shorter than the state limit, a caption is at most 1024
\* and a rich text at most 4096 characters long, link included; truncation is
\* invoked exactly when escaped body and link exceed the state limit, with
\* the state limit less the link length as its limit (984 for 1100 escaped
\* characters and a 40-character link), and the truncated body ends in the
\* ellipsis.
C8_WithinBudget ==
  /\ \A k \in 1..Len(length_checks) :
       LET c == length_checks[k]
           body_len == Len(c.text) - c.link_len
       IN  c.link_len < StateLimit(c.where) =>
             /\ Len(c.text) <= StateLimit(c.where)
             /\ c.invoked <=> (c.escaped_len + c.link_len > StateLimit(c.where))
             /\ c.invoked =>
                  /\ c.limit = StateLimit(c.where) - c.link_len
                  /\ body_len <= c.limit
                  /\ c.text[body_len] = ELLIPSIS
             /\ ~c.invoked => body_len = c.escaped_len
             /\ (c.where = "caption" /\ c.escaped_len = 1100 /\ c.link_len = 40)
                  => c.invoked /\ c.limit = 984 /\ body_len <= 985
  /\ \A k \in 1..Len(calls) :
       calls[k].parse_mode = "MarkdownV2" =>
         Len(calls[k].text) <=
           (IF calls[k].op = "send_photo" THEN CAPTION_LIMIT ELSE MESSAGE_LIMIT)

C8_Witness ==
  /\ \E k \in 1..Len(length_checks) :
       LET c == length_checks[k]
       IN  c.where = "caption" /\ c.escaped_len = 1100 /\ c.link_len = 40
             /\ c.invoked /\ c.limit = 984
  /\ \E k \in 1..Len(calls) :
       calls[k].op = "send_photo" /\ calls[k].text[Len(calls[k].text) - 40] = ELLIPSIS

(***************************************************************************)
(* Properties of the truncator, checked under SpecTrunc                    *)
(***************************************************************************)
\* MarkdownV2 as Telegram reads it: a backslash escapes the character after
\* it, an unescaped "**" is a bold marker and any other unescaped "*" an
\* italic marker. The numbers of markers of s and the positions (0-based) of
\* the spaces at which no span is open.
RECURSIVE MarkdownScan(_, _, _)
MarkdownScan(s, k, acc) ==
  IF k >= Len(s) THEN acc
  ELSE IF s[k + 1] = BACKSLASH THEN MarkdownScan(s, k + 2, acc)
  ELSE IF s[k + 1] = STAR /\ k + 1 < Len(s) /\ s[k + 2] = STAR
       THEN MarkdownScan(s, k + 2, [acc EXCEPT !.bold = acc.bold + 1])
  ELSE IF s[k + 1] = STAR
       THEN MarkdownScan(s, k + 1, [acc EXCEPT !.italic = acc.italic + 1])
  ELSE IF s[k + 1] = SPACE /\ acc.bold % 2 = 0 /\ acc.italic % 2 = 0
       THEN MarkdownScan(s, k + 1, [acc EXCEPT !.safe = acc.safe \cup {k}])
  ELSE MarkdownScan(s, k + 1, acc)

Markdown(s) == MarkdownScan(s, 0, [bold |-> 0, italic |-> 0, safe |-> {}])

Truncated == trunc_pc \in {"truncated raw", "truncated escaped"}

\* C9: an escaped string longer than the limit that has a safe space before
\* the limit is truncated to a string with no open span: its numbers of
\* unescaped bold markers and of unescaped italic markers are even.
C9_NoOpenSpan ==
  (/\ trunc_pc = "truncated escaped"
   /\ Len(trunc_text) > trunc_limit
   /\ \E p \in Markdown(trunc_text).safe : p < trunc_limit)
    => /\ Markdown(trunc_result).bold % 2 = 0
       /\ Markdown(trunc_result).italic % 2 = 0

\* C10 as stated: for every string and every integer limit the result is at
\* most limit + 1 characters long.
C10_BoundedAnyLimit ==
  Truncated => Len(trunc_result) <= trunc_limit + 1

\* C10 as amended: for every string and every limit >= 0 the result is at
\* most limit + 1 characters long, also when no safe space lies before the
\* limit and the cut falls at limit - 1.
C10_BoundedNonNegativeLimit ==
  (Truncated /\ trunc_limit >= 0) => Len(trunc_result) <= trunc_limit + 1

\* the degenerate case: no space before the limit, the cut at limit - 1
C10_Witness ==
  /\ Truncated /\ trunc_limit >= 2 /\ Len(trunc_text) > trunc_limit
  /\ \A k \in 1..trunc_limit : trunc_text[k] # SPACE
  /\ Len(trunc_result) = trunc_limit

\* C19: a string no longer than the limit is returned unchanged by the
\* truncator, and prepare_markdown_v2 with a limit that the escaped text does
\* not exceed returns exactly the output of the formatter.
C19_WithinLimitUnchanged ==
  /\ (Truncated /\ Len(trunc_text) <= trunc_limit) => trunc_result = trunc_text
  /\ (/\ trunc_pc = "prepared"
      /\ Len(_escape_md_v2_preserving_formatting(trunc_text)) <= trunc_limit)
       => trunc_result = _escape_md_v2_preserving_formatting(trunc_text)

\* prepare_markdown_v2 has returned an escaped text that differs from its
\* argument and fills the limit exactly
C19_Witness ==
  /\ trunc_pc = "prepared"
  /\ BACKSLASH \in {trunc_text[k] : k \in 1..Len(trunc_text)}
  /\ Len(trunc_result) = trunc_limit
  /\ trunc_result = _escape_md_v2_preserving_formatting(trunc_text)
  /\ trunc_result # trunc_text

\* C20: scanning an escaped string longer than the limit, the truncator
\* toggles its depths on exactly the markers no unescaped backslash stands
\* before (a marker after a doubled backslash toggles), and records a space
\* as safe only at depth 0: when the loop exits, open_bold and open_italic are
\* the parities of the unescaped markers scanned and last_safe_space, if
\* set, is a space outside every span.
C20_TogglesOnUnescapedMarkers ==
  (trunc_pc = "truncated escaped" /\ Len(trunc_text) > trunc_limit) =>
    LET st == TruncScan(trunc_text, trunc_limit)
        scanned == Markdown(Prefix(trunc_text, st.i))
    IN  /\ st.open_bold = scanned.bold % 2
        /\ st.open_italic = scanned.italic % 2
        /\ st.last_safe_space # -1 => st.last_safe_space \in scanned.safe

(***************************************************************************)
(* Properties of the formatter, checked under SpecFormat                   *)
(***************************************************************************)
RECURSIVE BackslashesBefore(_, _)
\* the number of backslashes that stand directly before position k (1-based)
BackslashesBefore(s, k) ==
  IF k > 1 /\ s[k - 1] = BACKSLASH THEN 1 + BackslashesBefore(s, k - 1) ELSE 0

Count(s, chars) == Cardinality({k \in 1..Len(s) : s[k] \in chars})

Formatted == fmt_pc = "formatted"

\* C11: for every input the output has no unescaped reserved character: each
\* reserved character of the output is preceded by an odd number of
\* backslashes, and the backslashes of the input are doubled before the
\* reserved characters are escaped, so the output has two backslashes for
\* each backslash of the input and one more for each reserved character.
C11_ReservedEscaped ==
  Formatted =>
    /\ \A k \in 1..Len(fmt_result) :
         fmt_result[k] \in Reserved => BackslashesBefore(fmt_result, k) % 2 = 1
    /\ Count(fmt_result, {BACKSLASH})
         = 2 * Count(fmt_text, {BACKSLASH}) + Count(fmt_result, Reserved)

\* an input backslash directly before a reserved character has been formatted
C11_Witness ==
  /\ Formatted
  /\ \E k \in 1..(Len(fmt_text) - 1) :
       fmt_text[k] = BACKSLASH /\ fmt_text[k + 1] = "."
  /\ \E k \in 1..Len(fmt_result) :
       fmt_result[k] = "." /\ BackslashesBefore(fmt_result, k) = 3

\* C12: when an emphasis marker of the input is unmatched, occurring an odd
\* number of times, the output has no unterminated span: its numbers of
\* unescaped bold markers and of unescaped italic markers are even.
C12_NoUnterminatedSpan ==
  (/\ Formatted
   /\ \/ Count(fmt_text, {UNDERSCORE}) % 2 = 1
      \/ Count(fmt_text, {STAR}) % 2 = 1)
    => /\ Markdown(fmt_result).bold % 2 = 0
       /\ Markdown(fmt_result).italic % 2 = 0

(***************************************************************************)
(* Properties of the schedule setup, checked under SpecSched               *)
(***************************************************************************)
W == total_minutes_in_range(START_HOUR, END_HOUR)

\* the job added last lies in its sub-interval and in the window
JobInSubInterval ==
  /\ job.i * (W \div POSTS_PER_DAY) <= job.scheduled_minute_abs
  /\ job.scheduled_minute_abs < (job.i + 1) * (W \div POSTS_PER_DAY)
JobInWindow ==
  /\ START_HOUR * 60 <= job.scheduled_hour * 60 + job.scheduled_minute
  /\ job.scheduled_hour * 60 + job.scheduled_minute < END_HOUR * 60
  /\ job.scheduled_minute \in 0..59

\* C18 as stated: for N >= 1 posts and a window of W minutes exactly N jobs
\* are registered, the i-th at an offset in [i * (W div N), (i + 1) * (W div N))
\* and so in [start:00, end:00); for N = 0 no job is registered.
C18_JobPerSubInterval ==
  /\ (sched_pc # "idle" /\ POSTS_PER_DAY >= 1 /\ job.i >= 0)
       => JobInSubInterval /\ JobInWindow
  /\ sched_pc = "started" => jobs_n = POSTS_PER_DAY /\ sched_i = POSTS_PER_DAY

\* C18 as amended: the same for 1 <= N <= W, where the sub-intervals are not
\* empty.
C18_JobPerNonEmptySubInterval ==
  /\ (sched_pc # "idle" /\ POSTS_PER_DAY >= 1 /\ POSTS_PER_DAY <= W /\ job.i >= 0)
       => JobInSubInterval /\ JobInWindow
  /\ sched_pc = "started" => jobs_n = POSTS_PER_DAY /\ sched_i = POSTS_PER_DAY

\* three posts between 9 and 21: the scheduler is started with three jobs, the
\* last in the last minute of the third sub-interval of 240 minutes
C18_Witness ==
  /\ sched_pc = "started"
  /\ POSTS_PER_DAY = 3 /\ START_HOUR = 9 /\ END_HOUR = 21
  /\ W \div POSTS_PER_DAY = 240
  /\ jobs_n = 3
  /\ job.i = 2 /\ job.scheduled_hour = 20 /\ job.scheduled_minute = 59

(***************************************************************************)
(* Properties of the image ranking, checked under SpecRank                 *)
(***************************************************************************)
\* C15: when at least one candidate is supplied the result is never "no
\* image", whatever downloads and model call do, and when the model call
\* fails or names no valid candidate the first supplied candidate is returned.
C15_NeverNoImage ==
  (rank_pc = "returned" /\ image_urls # <<>>) =>
    /\ rank_result # "None"
    /\ (rank_answer.kind # "number" \/ rank_answer.n \notin 1..Len(image_urls))
         => rank_result = image_urls[1]

(***************************************************************************)
(* Properties of the pipeline, checked under SpecPipeline                  *)
(***************************************************************************)
Started(r) == runs[r].pc # "waiting"
Delivering(r) == runs[r].pc \in ChainStates
Last(steps) == steps[Len(steps)]

\* C13: runs are serialized: no run starts while another run has begun and
\* not finished its delivery, so at no time are two runs in delivery.
C13_RunsSerialized ==
  \A r1, r2 \in Runs : (Delivering(r1) /\ Delivering(r2)) => r1 = r2

\* C14: the URL a run was given by the fetch is in the dedup store from then
\* on, whatever the outcome of the run, and it was not in the store when the
\* run was given it.
C14_RecordedBeforeProcessing ==
  \A r \in Runs :
    runs[r].article_url # "None"
      => runs[r].article_url \in published /\ ~runs[r].known

\* the orders of the steps of a run that goes through: the ranking is left
\* out when the page has no image candidate, lines 246-253
StepOrders ==
  {<<"fetch", "scrape", "generate", "rank", "deliver">>,
   <<"fetch", "scrape", "generate", "deliver">>}
EarlyStops == {"fetch nothing", "scrape fails", "generate fails"}
StepRaises == {"fetch raises", "scrape raises", "generate raises", "rank raises"}

\* the steps up to the last one went through in order, and the last one went
\* through, stopped the run or raised
InOrder(steps) ==
  \E order \in StepOrders, n \in 1..Len(steps) :
    /\ n = Len(steps) /\ n <= Len(order)
    /\ \A k \in 1..(n - 1) : steps[k] = order[k]
    /\ \/ steps[n] = order[n]
       \/ order[n] = "fetch" /\ steps[n] \in {"fetch nothing", "fetch raises"}
       \/ order[n] = "scrape" /\ steps[n] \in {"scrape fails", "scrape raises"}
       \/ order[n] = "generate" /\ steps[n] \in {"generate fails", "generate raises"}
       \/ order[n] = "rank" /\ steps[n] = "rank raises"

\* C16: the steps of a run happen in the order fetch, scrape, generate, rank
\* image, deliver, and a run in which no unpublished article is found,
\* scraping fails or yields empty text, or generation fails stops at that
\* step: it never reaches the delivery and no send of it is awaited.
C16_StepsInOrder ==
  \A r \in Runs :
    Started(r) =>
      /\ InOrder(runs[r].steps)
      /\ \A k \in 1..Len(runs[r].steps) :
           runs[r].steps[k] \in EarlyStops
             => /\ k = Len(runs[r].steps)
                /\ runs[r].pc = "done"
                /\ runs[r].outcome \in {"no article", "no content", "no post"}
      /\ (Delivering(r) \/ runs[r].outcome \in {"sent", "exhausted"})
           => Last(runs[r].steps) = "deliver"

\* one run went through all five steps and delivered, the other stopped when
\* the generation failed
C16_Witness ==
  \E r1, r2 \in Runs :
    /\ runs[r1].steps = <<"fetch", "scrape", "generate", "rank", "deliver">>
    /\ runs[r1].outcome = "sent"
    /\ runs[r2].steps = <<"fetch", "scrape", "generate fails">>
    /\ runs[r2].pc = "done"

\* C17: an exception raised at a step of a run is caught at line 258 and
\* logged as critical: it never leaves process_and_post_news, main stays
\* alive, and every run not yet started can still start.
C17_ExceptionsCaught ==
  \A r \in Runs :
    /\ runs[r].outcome # "propagated"
    /\ (Started(r) /\ (Last(runs[r].steps) \in StepRaises \/ runs[r].outcome = "critical"))
         => /\ runs[r].outcome = "critical" /\ runs[r].critical
            /\ runs[r].pc = "done"
            /\ MainAlive
            /\ \A later \in Runs :
                 ~Started(later) => ENABLED process_and_post_news(later)

\* the startup run raised while fetching and a later run delivered its post;
\* another raised inside the delivery
C17_Witness ==
  /\ runs[1].steps = <<"fetch raises">> /\ runs[1].outcome = "critical"
  /\ \E r \in Runs :
       /\ r # 1 /\ Started(r)
       /\ Last(runs[r].steps) = "deliver"
       /\ runs[r].outcome \in {"sent", "critical"}

\* C21: two runs that overlap, both suspended in a send of their delivery,
\* never hold the same article URL, so no article is delivered by more than
\* one run.
C21_OverlappingRunsDiffer ==
  \A r1, r2 \in Runs :
    (r1 # r2 /\ Delivering(r1) /\ Delivering(r2))
      => runs[r1].article_url # runs[r2].article_url

====
